---- MODULE Spec2Model ----
(***************************************************************************)
(* tide-tera: the extension trait TideTeraExt on tera::Tera (render_body,   *)
(* render_response) and the context! macro, src/src/lib.rs.                 *)
(*                                                                         *)
(* Strings are sequences of one-character strings, so that path parsing,   *)
(* escaping and concatenation are computed and not assumed.                *)
(***************************************************************************)
EXTENDS Integers, Sequences, FiniteSets, TLC

\* ------------------------------------------------------------------ bounds

\* Longest argument list handed to context! / longest run of insert calls.
MaxPairs == 3

\* Longest path string examined by the extension specification.
MaxPathLen == 4

\* Number of tasks that call the adapter concurrently on one shared Tera.
NumTasks == 2

\* ----------------------------------------------------------------- options

None == [some |-> FALSE]

Some(x) == [some |-> TRUE, v |-> x]

Ok(x) == [ok |-> TRUE, value |-> x]

Err(e) == [ok |-> FALSE, err |-> e]

\* --------------------------------------------------------- string helpers

RECURSIVE Concat(_)
\* The concatenation of a sequence of strings.
Concat(ss) ==
    IF ss = <<>> THEN <<>> ELSE Head(ss) \o Concat(Tail(ss))

\* Whether string s ends with string suffix (str::ends_with).
EndsWith(s, suffix) ==
    /\ Len(suffix) <= Len(s)
    /\ SubSeq(s, Len(s) - Len(suffix) + 1, Len(s)) = suffix

\* The largest index of character ch in s, 0 when there is none.
LastIndexOf(s, ch) ==
    LET hits == {i \in 1..Len(s) : s[i] = ch}
    IN  IF hits = {} THEN 0 ELSE CHOOSE i \in hits : \A j \in hits : j <= i

RECURSIVE Split(_, _)
\* s split at every occurrence of the character sep (empty pieces kept).
Split(s, sep) ==
    LET hits == {i \in 1..Len(s) : s[i] = sep}
    IN  IF hits = {} THEN <<s>>
        ELSE LET i == CHOOSE k \in hits : \A j \in hits : k <= j
             IN  <<SubSeq(s, 1, i - 1)>> \o Split(SubSeq(s, i + 1, Len(s)), sep)

\* All strings over alphabet of length at most n.
StringsUpTo(alphabet, n) ==
    UNION {[1..k -> alphabet] : k \in 0..n}

\* ------------------------------------------- std::path::PathBuf::extension

IsNormalPiece(piece) ==
    piece # <<>> /\ piece # <<".">>

\* Path::file_name (Unix): the last component of the path when it is a normal
\* one. Components drops empty pieces (repeated and trailing separators) and
\* "." pieces; a path left with nothing (empty, root, current directory) or
\* ending in ".." has no file name.
FileName(path) ==
    LET pieces == SelectSeq(Split(path, "/"), IsNormalPiece)
    IN  IF pieces = <<>> THEN None
        ELSE IF pieces[Len(pieces)] = <<".", ".">> THEN None
        ELSE Some(pieces[Len(pieces)])

\* std's rsplit_file_at_dot: (before, after) around the last '.' of a file
\* name; ".." and a name whose only '.' is its first character are all
\* "before" and have no "after".
RsplitFileAtDot(file) ==
    LET i == LastIndexOf(file, ".")
        before == IF i = 0 THEN None ELSE Some(SubSeq(file, 1, i - 1))
        after == Some(SubSeq(file, i + 1, Len(file)))
    IN  IF file = <<".", ".">> THEN [before |-> Some(file), after |-> None]
        ELSE IF before = Some(<<>>) THEN [before |-> Some(file), after |-> None]
        ELSE [before |-> before, after |-> after]

\* A variant of Extension that takes everything after the last '.' of the last
\* '/'-separated piece of the string, whatever that piece looks like.
ExtensionAfterLastDot(path) ==
    LET pieces == Split(path, "/")
        last == pieces[Len(pieces)]
        i == LastIndexOf(last, ".")
    IN  IF i = 0 THEN None ELSE Some(SubSeq(last, i + 1, Len(last)))

\* Path::extension: file_name().map(rsplit_file_at_dot)
\*                  .and_then(|(before, after)| before.and(after)).
Extension(path) ==
    LET name == FileName(path)
    IN  IF ~name.some THEN None
        ELSE LET parts == RsplitFileAtDot(name.v)
             IN  IF parts.before.some THEN parts.after ELSE None

\* ------------------------------------------------------ tide::http::Mime

PLAIN == "text/plain;charset=utf-8"

HTML == "text/html;charset=utf-8"

CSS == "text/css;charset=utf-8"

JSON == "application/json"

JAVASCRIPT == "application/javascript;charset=utf-8"

SVG == "image/svg+xml"

XML == "application/xml;charset=utf-8"

BYTE_STREAM == "application/octet-stream"

\* A variant of FromExtension that does not know the html extension.
FromExtensionWithoutHtml(extension) ==
    IF extension = <<"c", "s", "s">> THEN Some(CSS) ELSE None

\* Mime::from_extension: the extension to MIME table, matched exactly
\* (case-sensitively); anything else has no MIME type.
FromExtension(extension) ==
    CASE extension = <<"h", "t", "m", "l">> -> Some(HTML)
      [] extension \in {<<"j", "s">>, <<"m", "j", "s">>, <<"j", "s", "o", "n", "p">>}
            -> Some(JAVASCRIPT)
      [] extension = <<"j", "s", "o", "n">> -> Some(JSON)
      [] extension = <<"c", "s", "s">> -> Some(CSS)
      [] extension = <<"s", "v", "g">> -> Some(SVG)
      [] extension = <<"x", "m", "l">> -> Some(XML)
      [] OTHER -> None

\* --------------------------------------------------------- tera::Context

Keys == {"name", "framework"}

Values == {<<"t", "i", "d", "e">>, <<"<", "b", ">">>, <<"w", "e", "b">>}

\* A key => value argument of context!, or of one insert call.
Pairs == Keys \X Values

\* The argument lists of at most MaxPairs pairs.
ArgLists == UNION {[1..k -> Pairs] : k \in 0..MaxPairs}

\* serde's to_value on a string: Value::String.
ToValue(val) == [type |-> "String", s |-> val]

\* Context::new: an empty map.
ContextNew == <<>>

\* A variant of Insert that keeps the value a key already has.
InsertIfAbsent(ctx, key, val) ==
    [k \in DOMAIN ctx \cup {key} |->
        IF k \in DOMAIN ctx THEN ctx[k] ELSE ToValue(val)]

\* Context::insert: BTreeMap::insert of the serialised value; a key that is
\* present gets the new value.
Insert(ctx, key, val) ==
    [k \in DOMAIN ctx \cup {key} |-> IF k = key THEN ToValue(val) ELSE ctx[k]]

RECURSIVE InsertAll(_, _)
\* The $( _context.insert($key, &$value); )* repetition, in argument order.
InsertAll(ctx, pairs) ==
    IF pairs = <<>> THEN ctx
    ELSE InsertAll(Insert(ctx, Head(pairs)[1], Head(pairs)[2]), Tail(pairs))

\* context!: the arm for a trailing comma (at least one pair) drops the
\* comma and expands the other arm, which inserts into a new Context.
ContextMacro(pairs, trailing_comma) ==
    InsertAll(ContextNew, pairs)

\* ------------------------------------------------------------ tera::Tera

Lit(text) == [lit |-> TRUE, text |-> text]

Var(name) == [lit |-> FALSE, name |-> name]

\* tests/templates/good_template.html: "hello {{ name }}!\n".
HelloTemplate ==
    <<Lit(<<"h", "e", "l", "l", "o", " ">>), Var("name"), Lit(<<"!", "\n">>)>>

StaticTemplate == <<Lit(<<"o", "k">>)>>

GoodTemplateHtml ==
    <<"g", "o", "o", "d", "_", "t", "e", "m", "p", "l", "a", "t", "e", ".",
      "h", "t", "m", "l">>

UnknownExtensionTide ==
    <<"u", "n", "k", "n", "o", "w", "n", "_", "e", "x", "t", "e", "n", "s",
      "i", "o", "n", ".", "t", "i", "d", "e">>

NoExtension == <<"n", "o", "_", "e", "x", "t", "e", "n", "s", "i", "o", "n">>

DotHtml == <<".", "h", "t", "m", "l">>

PageUpperHtml == <<"p", "a", "g", "e", ".", "H", "T", "M", "L">>

HtmlSlash == <<"a", ".", "h", "t", "m", "l", "/">>

HtmlDirPage == <<"a", ".", "h", "t", "m", "l", "/", "p", "a", "g", "e">>

NameDot == <<"n", "a", "m", "e", ".">>

StyleCss == <<"s", "t", "y", "l", "e", ".", "c", "s", "s">>

MissingHtml == <<"m", "i", "s", "s", "i", "n", "g", ".", "h", "t", "m", "l">>

\* Tera::new("tests/templates/**/*") with the three templates the tests
\* render, and templates registered under names of other shapes.
TeraNew ==
    [templates |->
        (GoodTemplateHtml :> HelloTemplate) @@
        (UnknownExtensionTide :> HelloTemplate) @@
        (NoExtension :> HelloTemplate) @@
        (DotHtml :> HelloTemplate) @@
        (PageUpperHtml :> StaticTemplate) @@
        (HtmlSlash :> StaticTemplate) @@
        (HtmlDirPage :> HelloTemplate) @@
        (NameDot :> StaticTemplate) @@
        (StyleCss :> StaticTemplate),
     autoescape_suffixes |->
        {<<".", "h", "t", "m", "l">>, <<".", "h", "t", "m">>,
         <<".", "x", "m", "l">>}]

\* The template names a caller asks for: the registered ones and one that
\* is not registered.
TemplateIds == DOMAIN TeraNew.templates \cup {MissingHtml}

EscapeChar(c) ==
    CASE c = "&" -> <<"&", "a", "m", "p", ";">>
      [] c = "<" -> <<"&", "l", "t", ";">>
      [] c = ">" -> <<"&", "g", "t", ";">>
      [] c = "\"" -> <<"&", "q", "u", "o", "t", ";">>
      [] c = "'" -> <<"&", "#", "x", "2", "7", ";">>
      [] c = "/" -> <<"&", "#", "x", "2", "F", ";">>
      [] OTHER -> <<c>>

\* tera's escape_html, applied to values in templates whose name ends with
\* an autoescape suffix.
EscapeHtml(s) == Concat([i \in 1..Len(s) |-> EscapeChar(s[i])])

\* The variables a template refers to that the context does not hold.
MissingVariables(template, ctx) ==
    {i \in 1..Len(template) :
        ~template[i].lit /\ template[i].name \notin DOMAIN ctx}

\* Tera::render(&self, template_name, context): an error when the template
\* is not registered or refers to a variable the context lacks, otherwise
\* the text with every variable substituted.
Render(self, template_name, ctx) ==
    IF template_name \notin DOMAIN self.templates
    THEN Err([kind |-> "TemplateNotFound", template |-> template_name])
    ELSE LET template == self.templates[template_name]
             missing == MissingVariables(template, ctx)
             escape == \E suffix \in self.autoescape_suffixes :
                           EndsWith(template_name, suffix)
             Piece(i) ==
                 IF template[i].lit THEN template[i].text
                 ELSE IF escape THEN EscapeHtml(ctx[template[i].name].s)
                 ELSE ctx[template[i].name].s
         IN  IF missing # {}
             THEN LET first == CHOOSE i \in missing : \A j \in missing : i <= j
                  IN  Err([kind |-> "VariableNotFound",
                           variable |-> template[first].name,
                           template |-> template_name])
             ELSE Ok(Concat([i \in 1..Len(template) |-> Piece(i)]))

\* ------------------------------------------------- tide::Body, Response

\* StatusCode::Ok, the argument of Response::new in render_response.
StatusOk == 200

\* StatusCode::InternalServerError, the status tide::Error::from gives an
\* error it converts.
InternalServerError == 500

\* A variant of FromTeraError that hands the renderer's error on as it is.
FromTeraErrorUnchanged(error) == error

\* The conversion `?` applies to a tera::Error in a function returning
\* tide::Result: tide::Error::from wraps the error and gives it status 500.
FromTeraError(error) == [status |-> InternalServerError, error |-> error]

\* A variant of BodyFromString that drops trailing newlines of the string.
RECURSIVE BodyFromStringTrimmed(_)
BodyFromStringTrimmed(string) ==
    IF string # <<>> /\ string[Len(string)] = "\n"
    THEN BodyFromStringTrimmed(SubSeq(string, 1, Len(string) - 1))
    ELSE [bytes |-> string, mime |-> PLAIN, length |-> Len(string)]

\* Body::from_string: the bytes of the string, its length, MIME text/plain.
BodyFromString(string) ==
    [bytes |-> string, mime |-> PLAIN, length |-> Len(string)]

\* Body::empty, the body of a new Response.
BodyEmpty == [bytes |-> <<>>, mime |-> BYTE_STREAM, length |-> 0]

\* Body::set_mime.
SetMime(body, mime) == [body EXCEPT !.mime = mime]

\* Response::new(status): no headers, an empty body.
ResponseNew(status) ==
    [status |-> status, content_type |-> None, body |-> BodyEmpty]

\* A variant of SetBody that leaves the Content-Type header alone.
SetBodyOnly(response, body) == [response EXCEPT !.body = body]

\* Response::set_body: the body replaces the old one, and its MIME type
\* becomes the Content-Type header unless one is set already.
SetBody(response, body) ==
    [response EXCEPT
        !.body = body,
        !.content_type = IF response.content_type.some
                         THEN response.content_type ELSE Some(body.mime)]

\* Response::content_type.
ContentType(response) == response.content_type

\* ------------------------------------------------- impl TideTeraExt for Tera

\* A variant of InferMime that falls back to text/html when the extension
\* is not in the table.
InferMimeOrHtml(body, template_name) ==
    LET ext == Extension(template_name)
    IN  IF ext.some
        THEN LET mime == FromExtension(ext.v)
             IN  SetMime(body, IF mime.some THEN mime.v ELSE HTML)
        ELSE body

\* render_body, after the body is made: the MIME type of the template
\* name's extension, when it has one and the table knows it. The name is a
\* &str, so to_string_lossy returns the extension as it is.
InferMime(body, template_name) ==
    LET ext == Extension(template_name)
    IN  IF ext.some
        THEN LET mime == FromExtension(ext.v)
             IN  IF mime.some THEN SetMime(body, mime.v) ELSE body
        ELSE body

\* render_body as one function of its arguments.
render_body(self, template_name, ctx) ==
    LET rendered == Render(self, template_name, ctx)
    IN  IF ~rendered.ok THEN Err(FromTeraError(rendered.err))
        ELSE Ok(InferMime(BodyFromString(rendered.value), template_name))

\* render_response as one function of its arguments.
render_response(self, template_name, ctx) ==
    LET response == ResponseNew(StatusOk)
        body == render_body(self, template_name, ctx)
    IN  IF ~body.ok THEN Err(body.err)
        ELSE Ok(SetBody(response, body.value))

\* ------------------------------------------------------------------ state

Tasks == 1..NumTasks

\* The task that calls in the sequential specification.
SeqTasks == {1}

Unset == [unset |-> TRUE]

VARIABLES
    tera,           \* the Tera the tasks share (&self)
    pc,             \* where each task is in its call
    op,             \* the method each task called
    template_name,  \* its template_name argument
    context,        \* the Context its context argument refers to
    string,         \* render_body's local `string`
    body,           \* render_body's local `body`
    response,       \* render_response's local `response`
    inner,          \* what render_body returned to render_response
    result,         \* what the call returned to its caller
    renderCalls,    \* how often the call invoked Tera::render
    pairs,          \* the key/value pairs given so far
    ctxManual,      \* the Context made by Context::new and insert calls
    ctxMacro,       \* the Context context! made of pairs, once expanded
    path,           \* a path string
    extension       \* its extension, once computed

taskVars ==
    <<pc, op, template_name, context, string, body, response, inner, result,
      renderCalls>>

ctxVars == <<pairs, ctxManual, ctxMacro>>

pathVars == <<path, extension>>

vars == <<tera, taskVars, ctxVars, pathVars>>

TaskInit ==
    /\ tera = TeraNew
    /\ pc = [t \in Tasks |-> "idle"]
    /\ op = [t \in Tasks |-> "none"]
    /\ template_name = [t \in Tasks |-> <<>>]
    /\ context = [t \in Tasks |-> ContextNew]
    /\ string = [t \in Tasks |-> <<>>]
    /\ body = [t \in Tasks |-> Unset]
    /\ response = [t \in Tasks |-> Unset]
    /\ inner = [t \in Tasks |-> Unset]
    /\ result = [t \in Tasks |-> Unset]
    /\ renderCalls = [t \in Tasks |-> 0]

CtxInit ==
    /\ pairs = <<>>
    /\ ctxManual = ContextNew
    /\ ctxMacro = None

Init ==
    /\ TaskInit
    /\ CtxInit
    /\ path = <<>>
    /\ extension = Unset

\* ---------------------------------------------------------------- actions

Methods == {"render_body", "render_response"}

\* A caller invokes a method with a template name and a context built by
\* context!, as the tests and the example's request handler do.
Call(t, ids, arglists) ==
    /\ pc[t] = "idle"
    /\ \E method \in Methods, name \in ids, args \in arglists,
          trailing_comma \in BOOLEAN :
          /\ trailing_comma => Len(args) >= 1
          /\ op' = [op EXCEPT ![t] = method]
          /\ template_name' = [template_name EXCEPT ![t] = name]
          /\ context' = [context EXCEPT ![t] = ContextMacro(args, trailing_comma)]
          /\ pc' = [pc EXCEPT ![t] =
                      IF method = "render_body" THEN "body_render"
                      ELSE "response_new"]
    /\ UNCHANGED <<tera, string, body, response, inner, result, renderCalls,
                   ctxVars, pathVars>>

\* render_response: let mut response = Response::new(200), then the call of
\* render_body.
RrNew(t) ==
    /\ pc[t] = "response_new"
    /\ response' = [response EXCEPT ![t] = ResponseNew(StatusOk)]
    /\ pc' = [pc EXCEPT ![t] = "body_render"]
    /\ UNCHANGED <<tera, op, template_name, context, string, body, inner,
                   result, renderCalls, ctxVars, pathVars>>

\* render_body returns r: to the caller, or to render_response when that is
\* what called it.
ReturnFromBody(t, r) ==
    IF op[t] = "render_body"
    THEN /\ result' = [result EXCEPT ![t] = r]
         /\ pc' = [pc EXCEPT ![t] = "done"]
         /\ UNCHANGED inner
    ELSE /\ inner' = [inner EXCEPT ![t] = r]
         /\ pc' = [pc EXCEPT ![t] = "response_set_body"]
         /\ UNCHANGED result

\* A variant of RbRender that carries on with an empty string when the
\* renderer fails.
RbRenderUnwrapOrDefault(t) ==
    /\ pc[t] = "body_render"
    /\ LET rendered == Render(tera, template_name[t], context[t])
       IN  string' = [string EXCEPT ![t] =
                        IF rendered.ok THEN rendered.value ELSE <<>>]
    /\ renderCalls' = [renderCalls EXCEPT ![t] = @ + 1]
    /\ pc' = [pc EXCEPT ![t] = "body_from_string"]
    /\ UNCHANGED <<tera, op, template_name, context, body, response, inner,
                   result, ctxVars, pathVars>>

\* A variant of RbRender that renders a second time when the renderer fails.
RbRenderRetry(t) ==
    /\ pc[t] = "body_render"
    /\ LET rendered == Render(tera, template_name[t], context[t])
       IN  IF rendered.ok
           THEN /\ string' = [string EXCEPT ![t] = rendered.value]
                /\ renderCalls' = [renderCalls EXCEPT ![t] = @ + 1]
                /\ pc' = [pc EXCEPT ![t] = "body_from_string"]
                /\ UNCHANGED <<inner, result>>
           ELSE /\ ReturnFromBody(t, Err(FromTeraError(rendered.err)))
                /\ renderCalls' = [renderCalls EXCEPT ![t] = @ + 2]
                /\ UNCHANGED string
    /\ UNCHANGED <<tera, op, template_name, context, body, response, ctxVars,
                   pathVars>>

\* A variant of RbRender that keeps the rendered text in one buffer all tasks
\* use.
RbRenderSharedBuffer(t) ==
    /\ pc[t] = "body_render"
    /\ renderCalls' = [renderCalls EXCEPT ![t] = @ + 1]
    /\ LET rendered == Render(tera, template_name[t], context[t])
       IN  IF rendered.ok
           THEN /\ string' = [u \in Tasks |-> rendered.value]
                /\ pc' = [pc EXCEPT ![t] = "body_from_string"]
                /\ UNCHANGED <<inner, result>>
           ELSE /\ ReturnFromBody(t, Err(FromTeraError(rendered.err)))
                /\ UNCHANGED string
    /\ UNCHANGED <<tera, op, template_name, context, body, response, ctxVars,
                   pathVars>>

\* render_body: let string = self.render(template_name, context)?; an error
\* is converted and returned at once.
RbRender(t) ==
    /\ pc[t] = "body_render"
    /\ renderCalls' = [renderCalls EXCEPT ![t] = @ + 1]
    /\ LET rendered == Render(tera, template_name[t], context[t])
       IN  IF rendered.ok
           THEN /\ string' = [string EXCEPT ![t] = rendered.value]
                /\ pc' = [pc EXCEPT ![t] = "body_from_string"]
                /\ UNCHANGED <<inner, result>>
           ELSE /\ ReturnFromBody(t, Err(FromTeraError(rendered.err)))
                /\ UNCHANGED string
    /\ UNCHANGED <<tera, op, template_name, context, body, response, ctxVars,
                   pathVars>>

\* render_body: let mut body = Body::from_string(string).
RbFromString(t) ==
    /\ pc[t] = "body_from_string"
    /\ body' = [body EXCEPT ![t] = BodyFromString(string[t])]
    /\ pc' = [pc EXCEPT ![t] = "body_mime"]
    /\ UNCHANGED <<tera, op, template_name, context, string, response, inner,
                   result, renderCalls, ctxVars, pathVars>>

\* render_body: the two if-lets on the extension and its MIME type.
RbMime(t) ==
    /\ pc[t] = "body_mime"
    /\ body' = [body EXCEPT ![t] = InferMime(body[t], template_name[t])]
    /\ pc' = [pc EXCEPT ![t] = "body_return"]
    /\ UNCHANGED <<tera, op, template_name, context, string, response, inner,
                   result, renderCalls, ctxVars, pathVars>>

\* render_body: Ok(body).
RbReturn(t) ==
    /\ pc[t] = "body_return"
    /\ ReturnFromBody(t, Ok(body[t]))
    /\ UNCHANGED <<tera, op, template_name, context, string, body, response,
                   renderCalls, ctxVars, pathVars>>

\* A variant of RrSetBody that sets the body when there is one and goes on
\* to return the response either way.
RrSetBodyIfOk(t) ==
    /\ pc[t] = "response_set_body"
    /\ response' = [response EXCEPT ![t] =
                      IF inner[t].ok THEN SetBody(response[t], inner[t].value)
                      ELSE response[t]]
    /\ pc' = [pc EXCEPT ![t] = "response_return"]
    /\ UNCHANGED <<tera, op, template_name, context, string, body, inner,
                   result, renderCalls, ctxVars, pathVars>>

\* render_response: response.set_body(self.render_body(..)?); the error of
\* render_body is a tide::Error already and is returned as it is.
RrSetBody(t) ==
    /\ pc[t] = "response_set_body"
    /\ IF inner[t].ok
       THEN /\ response' = [response EXCEPT ![t] =
                              SetBody(response[t], inner[t].value)]
            /\ pc' = [pc EXCEPT ![t] = "response_return"]
            /\ UNCHANGED result
       ELSE /\ result' = [result EXCEPT ![t] = Err(inner[t].err)]
            /\ pc' = [pc EXCEPT ![t] = "done"]
            /\ UNCHANGED response
    /\ UNCHANGED <<tera, op, template_name, context, string, body, inner,
                   renderCalls, ctxVars, pathVars>>

\* render_response: Ok(response).
RrReturn(t) ==
    /\ pc[t] = "response_return"
    /\ result' = [result EXCEPT ![t] = Ok(response[t])]
    /\ pc' = [pc EXCEPT ![t] = "done"]
    /\ UNCHANGED <<tera, op, template_name, context, string, body, response,
                   inner, renderCalls, ctxVars, pathVars>>

\* The caller is done with the result; the call's locals and the temporary
\* context are dropped.
Finish(t) ==
    /\ pc[t] = "done"
    /\ pc' = [pc EXCEPT ![t] = "idle"]
    /\ op' = [op EXCEPT ![t] = "none"]
    /\ template_name' = [template_name EXCEPT ![t] = <<>>]
    /\ context' = [context EXCEPT ![t] = ContextNew]
    /\ string' = [string EXCEPT ![t] = <<>>]
    /\ body' = [body EXCEPT ![t] = Unset]
    /\ response' = [response EXCEPT ![t] = Unset]
    /\ inner' = [inner EXCEPT ![t] = Unset]
    /\ result' = [result EXCEPT ![t] = Unset]
    /\ renderCalls' = [renderCalls EXCEPT ![t] = 0]
    /\ UNCHANGED <<tera, ctxVars, pathVars>>

\* let mut context = tera::Context::new(); context.insert(key, val); ...
ManualInsert ==
    /\ Len(pairs) < MaxPairs
    /\ \E key \in Keys, val \in Values :
          /\ pairs' = Append(pairs, <<key, val>>)
          /\ ctxManual' = Insert(ctxManual, key, val)
    /\ ctxMacro' = None
    /\ UNCHANGED <<tera, taskVars, pathVars>>

\* context! { pairs } is expanded, with or without a trailing comma.
ExpandMacro ==
    /\ ctxMacro = None
    /\ \E trailing_comma \in BOOLEAN :
          /\ trailing_comma => Len(pairs) >= 1
          /\ ctxMacro' = Some(ContextMacro(pairs, trailing_comma))
    /\ UNCHANGED <<tera, taskVars, pairs, ctxManual, pathVars>>

\* let path = PathBuf::from(template_name); path.extension().
ComputeExtension ==
    /\ extension = Unset
    /\ extension' = Extension(path)
    /\ UNCHANGED <<tera, taskVars, ctxVars, path>>

\* --------------------------------------------------------- specifications

\* One caller at a time, every template name and every argument list.
Next ==
    \E t \in SeqTasks :
        \/ Call(t, TemplateIds, ArgLists)
        \/ RrNew(t)
        \/ RbRender(t)
        \/ RbFromString(t)
        \/ RbMime(t)
        \/ RbReturn(t)
        \/ RrSetBody(t)
        \/ RrReturn(t)
        \/ Finish(t)

Spec == Init /\ [][Next]_vars

\* The template names and argument lists of the concurrent callers: two
\* contexts that render to different texts, and a name that fails to render.
ConcTemplateIds == {GoodTemplateHtml, NoExtension, MissingHtml}

ConcArgLists ==
    {<<<<"name", <<"t", "i", "d", "e">>>>>>, <<<<"name", <<"<", "b", ">">>>>>>}

\* Tasks calling on the shared Tera, their steps interleaved in any order.
NextConc ==
    \E t \in Tasks :
        \/ Call(t, ConcTemplateIds, ConcArgLists)
        \/ RrNew(t)
        \/ RbRender(t)
        \/ RbFromString(t)
        \/ RbMime(t)
        \/ RbReturn(t)
        \/ RrSetBody(t)
        \/ RrReturn(t)
        \/ Finish(t)

SpecConc == Init /\ [][NextConc]_vars

\* Contexts built pair by pair, and by the macro.
NextCtx == ManualInsert \/ ExpandMacro

SpecCtx == Init /\ [][NextCtx]_vars

PathAlphabet == {"a", ".", "/"}

InitExt ==
    /\ TaskInit
    /\ CtxInit
    /\ path \in StringsUpTo(PathAlphabet, MaxPathLen)
    /\ extension = Unset

NextExt == ComputeExtension

SpecExt == InitExt /\ [][NextExt]_vars

\* ------------------------------------------------------------- properties

\* What the shared Tera's renderer makes of a task's arguments.
Rendered(t) == Render(tera, template_name[t], context[t])

Returned(t, method) == pc[t] = "done" /\ op[t] = method

HelloTide == <<"h", "e", "l", "l", "o", " ", "t", "i", "d", "e", "!", "\n">>

NameTide == ContextMacro(<<<<"name", <<"t", "i", "d", "e">>>>>>, FALSE)

\* C1: when the template name's extension is html and the renderer
\* succeeds, render_body returns a Body whose MIME type is text/html.
C1_HtmlExtensionGivesHtmlMime ==
    \A t \in Tasks :
        (/\ Returned(t, "render_body")
         /\ Rendered(t).ok
         /\ Extension(template_name[t]) = Some(<<"h", "t", "m", "l">>))
        => result[t].ok /\ result[t].value.mime = HTML

\* A render_body call on good_template.html has returned an html body.
C1_Witness ==
    \E t \in Tasks :
        /\ Returned(t, "render_body")
        /\ template_name[t] = GoodTemplateHtml
        /\ result[t].ok
        /\ result[t].value.mime = HTML

\* C2: when the renderer succeeds and the template name has no extension,
\* or one the extension table does not know, render_body returns a Body
\* with the default MIME type, text/plain.
C2_UnknownOrAbsentExtensionKeepsPlain ==
    \A t \in Tasks :
        (/\ Returned(t, "render_body")
         /\ Rendered(t).ok
         /\ LET ext == Extension(template_name[t])
            IN  ~ext.some \/ ~FromExtension(ext.v).some)
        => result[t].ok /\ result[t].value.mime = PLAIN

\* render_body has returned plain bodies for unknown_extension.tide (an
\* extension the table does not know) and for no_extension (none).
C2_Witness ==
    \E t \in Tasks :
        /\ Returned(t, "render_body")
        /\ template_name[t] \in {UnknownExtensionTide, NoExtension}
        /\ Extension(UnknownExtensionTide) = Some(<<"t", "i", "d", "e">>)
        /\ Extension(NoExtension) = None
        /\ result[t].ok
        /\ result[t].value.mime = PLAIN

\* C3: a Response that render_response returns has status 200, and its
\* content type is the MIME type of the Body render_body returns for the
\* same template name and context.
C3_ResponseStatusAndContentType ==
    \A t \in Tasks :
        (Returned(t, "render_response") /\ result[t].ok)
        => LET b == render_body(tera, template_name[t], context[t])
           IN  /\ result[t].value.status = 200
               /\ b.ok
               /\ ContentType(result[t].value) = Some(b.value.mime)

\* render_response has returned a response of content type text/html.
C3_Witness ==
    \E t \in Tasks :
        /\ Returned(t, "render_response")
        /\ result[t].ok
        /\ result[t].value.status = 200
        /\ ContentType(result[t].value) = Some(HTML)

\* The template a task asked for is registered and refers to a variable the
\* task's context does not hold.
RefersToMissingVariable(t) ==
    /\ template_name[t] \in DOMAIN tera.templates
    /\ MissingVariables(tera.templates[template_name[t]], context[t]) # {}

\* C4: when the template refers to a variable the context does not hold,
\* render_body and render_response return an error and nothing else: no
\* Body, and not the Response made before rendering.
C4_MissingVariableIsAnError ==
    \A t \in Tasks :
        (pc[t] = "done" /\ RefersToMissingVariable(t))
        => /\ ~result[t].ok
           /\ DOMAIN result[t] = {"ok", "err"}

\* render_response was called on good_template.html with a context
\* holding only "framework" (as the bad_template test calls render_body),
\* had made its Response, and returned an error.
C4_Witness ==
    \E t \in Tasks :
        /\ Returned(t, "render_response")
        /\ template_name[t] = GoodTemplateHtml
        /\ DOMAIN context[t] = {"framework"}
        /\ response[t] = ResponseNew(StatusOk)
        /\ ~result[t].ok

\* C6, as claimed: when the renderer fails the caller receives the
\* renderer's own error value, not wrapped or converted, and the renderer
\* was invoked once.
C6_ErrorUnchanged ==
    \A t \in Tasks :
        (pc[t] = "done" /\ ~Rendered(t).ok)
        => /\ result[t] = Err(Rendered(t).err)
           /\ renderCalls[t] = 1

\* C6, amended: when the renderer fails the caller receives a tide::Error of
\* status 500 that wraps the renderer's error, wrapped once (by render_body,
\* render_response adds nothing), and the renderer was invoked once.
C6_ErrorWrappedOnce ==
    \A t \in Tasks :
        (pc[t] = "done" /\ ~Rendered(t).ok)
        => /\ result[t] = Err([status |-> 500, error |-> Rendered(t).err])
           /\ renderCalls[t] = 1

\* Both methods have returned the error of a failed render.
C6_Witness ==
    \E t \in Tasks :
        /\ Returned(t, "render_response")
        /\ template_name[t] = MissingHtml
        /\ ~result[t].ok
        /\ result[t].err.error.kind = "TemplateNotFound"

\* The content of what a finished call returned: the Body's bytes, or those
\* of the Response's body.
ReturnedBytes(t) ==
    IF op[t] = "render_body" THEN result[t].value.bytes
    ELSE result[t].value.body.bytes

\* C7: when the renderer succeeds with string s, the content of the Body
\* that render_body returns and of the body of the Response that
\* render_response returns is s; with the context name => tide,
\* good_template.html gives "hello tide!\n".
C7_BodyIsTheRenderedString ==
    \A t \in Tasks :
        (pc[t] = "done" /\ Rendered(t).ok)
        => /\ result[t].ok
           /\ ReturnedBytes(t) = Rendered(t).value
           /\ (template_name[t] = GoodTemplateHtml /\ context[t] = NameTide
               => ReturnedBytes(t) = HelloTide)

\* render_response has returned "hello tide!\n" for good_template.html.
C7_Witness ==
    \E t \in Tasks :
        /\ Returned(t, "render_response")
        /\ template_name[t] = GoodTemplateHtml
        /\ context[t] = NameTide
        /\ ReturnedBytes(t) = HelloTide

\* What a call returns when nothing else runs.
Alone(t) ==
    IF op[t] = "render_body"
    THEN render_body(TeraNew, template_name[t], context[t])
    ELSE render_response(TeraNew, template_name[t], context[t])

\* A step leaves the Tera as it is, and the arguments of every call that is
\* under way before and after it.
NoInterference ==
    /\ tera' = tera
    /\ \A t \in Tasks :
          (pc[t] # "idle" /\ pc'[t] # "idle")
          => /\ context'[t] = context[t]
             /\ template_name'[t] = template_name[t]
             /\ op'[t] = op[t]

\* C8: however the steps of concurrent calls interleave, each call returns
\* what it returns when run alone, and no step changes the shared Tera or
\* the arguments of a call under way.
C8_CallsAreIndependent ==
    /\ [](\A t \in Tasks : pc[t] = "done" => result[t] = Alone(t))
    /\ [][NoInterference]_vars

\* Two calls with different outcomes were under way together and have both
\* returned.
C8_Witness ==
    /\ pc[1] = "done"
    /\ pc[2] = "done"
    /\ result[1].ok
    /\ result[2].ok
    /\ result[1] # result[2]
    /\ op[1] # op[2]

\* C10: a call returns an error exactly when the renderer returns one for
\* the same template name and context, whatever the name's extension.
C10_ErrorIffRendererFails ==
    \A t \in Tasks :
        pc[t] = "done" => (result[t].ok <=> Rendered(t).ok)

\* Calls on names with an empty, an upper-case and no extension succeeded
\* (this one: "name.", whose extension is the empty string).
C10_Witness ==
    \E t \in Tasks :
        /\ pc[t] = "done"
        /\ template_name[t] = NameDot
        /\ Extension(NameDot) = Some(<<>>)
        /\ result[t].ok

\* The keys of a list of pairs.
KeysOf(ps) == {ps[i][1] : i \in 1..Len(ps)}

\* The value of the last pair of ps with key k.
LastValue(ps, k) ==
    LET hits == {i \in 1..Len(ps) : ps[i][1] = k}
    IN  ps[CHOOSE i \in hits : \A j \in hits : j <= i][2]

\* C5: the context context! makes of a list of pairs holds exactly the keys
\* of the list, each with the value of its last occurrence, and equals the
\* context made by inserting the pairs one by one into a new context.
C5_ContextHoldsLastValues ==
    ctxMacro.some
    => /\ DOMAIN ctxMacro.v = KeysOf(pairs)
       /\ \A k \in KeysOf(pairs) : ctxMacro.v[k] = ToValue(LastValue(pairs, k))
       /\ ctxMacro.v = ctxManual

\* The macro was expanded on a list that gives a key twice, with different
\* values.
C5_Witness ==
    /\ ctxMacro.some
    /\ \E i, j \in 1..Len(pairs) :
          i < j /\ pairs[i][1] = pairs[j][1] /\ pairs[i][2] # pairs[j][2]

\* C9, as claimed: the extension is what follows the last '.' of the last
\* '/'-separated piece of the template name, when that piece holds a '.'.
C9_ExtensionAfterLastDot ==
    extension # Unset => extension = ExtensionAfterLastDot(path)

\* The pieces after position j of p are all empty or ".": nothing, or a '/'
\* followed by such pieces.
OnlyIgnoredAfter(p, j) ==
    \/ j = Len(p)
    \/ /\ p[j + 1] = "/"
       /\ \A i \in j + 1..Len(p) :
             \/ p[i] = "/"
             \/ p[i] = "." /\ p[i - 1] = "/" /\ (i = Len(p) \/ p[i + 1] = "/")

\* The strings e such that p is: anything ending in '/' (or nothing), a
\* non-empty stem, a '.', e, and then only ignored pieces; where stem and e
\* hold no '/', e holds no '.', and stem.e is not "..".
ExtensionsByShape(p) ==
    {SubSeq(p, d + 1, j) : <<s, d, j>> \in
        {x \in (1..Len(p)) \X (1..Len(p)) \X (1..Len(p)) :
            /\ x[1] < x[2]
            /\ x[2] <= x[3]
            /\ x[1] = 1 \/ p[x[1] - 1] = "/"
            /\ \A i \in x[1]..x[3] : p[i] # "/"
            /\ p[x[2]] = "."
            /\ \A i \in x[2] + 1..x[3] : p[i] # "."
            /\ SubSeq(p, x[1], x[3]) # <<".", ".">>
            /\ OnlyIgnoredAfter(p, x[3])}}

\* C9, amended: the extension is that of the last path component, where
\* empty pieces and "." pieces do not count as components (so trailing
\* slashes are skipped) and a last component ".." has none: it is what
\* follows the component's last '.', when the component holds a '.' that is
\* not its first character. Dots in earlier components are ignored.
C9_ExtensionOfLastComponent ==
    extension # Unset
    => \/ ExtensionsByShape(path) = {} /\ extension = None
       \/ extension.some /\ ExtensionsByShape(path) = {extension.v}

\* The extension of ".a" was computed: there is none.
C9_Witness ==
    /\ path = <<".", "a">>
    /\ extension = None

====
